---- MODULE Spec2Model ----
(***************************************************************************)
(* A model of src/replacer/mod.rs (sd): the Replacer built by              *)
(* Replacer::new, the in-memory replace / replace_preview (replacen), and  *)
(* the file rewrite replace_file.                                          *)
(*                                                                         *)
(* Bytes are their ASCII codes.  Offsets into byte strings are 0-based, as *)
(* in the source; Slice(s, a, b) is the source's s[a..b].                  *)
(***************************************************************************)
EXTENDS Integers, Sequences, FiniteSets, TLC

VARIABLES
    \* ---- the Replacer (mod.rs:13-18) and the content handed to it
    self,           \* [regex, replace_with, is_literal, replacements]
    content,        \* the &[u8] given to replace / replace_preview
    replace_out,    \* what replace returned (a Cow), or None
    preview_out,    \* what replace_preview returned (a Cow), or None
    \* ---- one call of Replacer::new (mod.rs:21-75)
    args,           \* [look_for, replace_with, is_literal, flags, replacements]
    rejected,       \* the templates validate_replace turns down
    new_call,       \* [pc, look_for, replace_with, regex, done, result]
    \* ---- one call of replace_file (mod.rs:179-211) and the file system
    path,           \* [has_parent]: whether Path::parent() is Some
    target_file,    \* the file at path: [bytes, perm]
    temp_file,      \* the NamedTempFile on disk, or None:
                    \*   [bytes, durable, perm, flush_requested]
    orig,           \* the file at path when replace_file was called
    rf,             \* the call's frame: [pc, probe, source, mmap_source,
                    \*   mmap_target, meta, replaced, result]
    io              \* the file-system operations the call has made, in order

replaceVars == <<content, replace_out, preview_out>>

newVars == <<args, rejected, new_call>>

fileVars == <<path, target_file, temp_file, orig, rf, io>>

vars == <<self, replaceVars, newVars, fileVars>>

None == [kind |-> "None"]

\* The bytes the model uses, by name.
Ch == [a |-> 97, b |-> 98, x |-> 120, dot |-> 46, bslash |-> 92,
       dollar |-> 36, zero |-> 48, one |-> 49, two |-> 50, five |-> 53,
       at |-> 64, lparen |-> 40, rparen |-> 41, esc |-> 27, lbracket |-> 91,
       m |-> 109, nl |-> 10, tab |-> 9, n |-> 110, t |-> 116]

Slice(s, from, to) == SubSeq(s, from + 1, to)

RECURSIVE Concat(_)
Concat(ss) == IF ss = <<>> THEN <<>> ELSE Head(ss) \o Concat(Tail(ss))

\* All sequences of at most n elements of S.
SeqUpTo(S, n) == UNION {[1..k -> S] : k \in 0..n}

(***************************************************************************)
(* The pattern engine (crate regex, bytes API), for the pattern syntax the *)
(* model draws from: literal bytes, backslash-escaped bytes, `.`, the word *)
(* boundary `\b` and non-nested capture groups.  Every such pattern has a  *)
(* fixed positive width, so the leftmost match at or after an offset is    *)
(* unique.  A compiled regex is its pattern text with the builder's        *)
(* options: [pattern, case_insensitive, multi_line, dot_matches_new_line]. *)
(***************************************************************************)

\* The bytes of [0-9A-Za-z_]: word bytes, and the bytes of a capture name.
IsNameByte(c) == (c >= 48 /\ c <= 57) \/ (c >= 65 /\ c <= 90) \/ (c >= 97 /\ c <= 122) \/ c = 95

\* regex::escape: a backslash before every meta character.
IsMeta(c) == c \in {92, 46, 43, 42, 63, 40, 41, 124, 91, 93, 123, 125, 94, 36, 35, 38, 45, 126}

RECURSIVE escape(_)
escape(s) ==
    IF s = <<>> THEN <<>>
    ELSE (IF IsMeta(Head(s)) THEN <<Ch.bslash, Head(s)>> ELSE <<Head(s)>>)
         \o escape(Tail(s))

\* The pattern text as atoms: lit c | any | wordb | open | close.
RECURSIVE Atoms(_)
Atoms(p) ==
    IF p = <<>> THEN <<>>
    ELSE IF Head(p) = Ch.bslash /\ Len(p) >= 2 /\ p[2] = Ch.b
         THEN <<[kind |-> "wordb", byte |-> 0]>> \o Atoms(Tail(Tail(p)))
    ELSE IF Head(p) = Ch.bslash /\ Len(p) >= 2
         THEN <<[kind |-> "lit", byte |-> p[2]]>> \o Atoms(Tail(Tail(p)))
    ELSE IF Head(p) = Ch.dot
         THEN <<[kind |-> "any", byte |-> 0]>> \o Atoms(Tail(p))
    ELSE IF Head(p) = Ch.lparen
         THEN <<[kind |-> "open", byte |-> 0]>> \o Atoms(Tail(p))
    ELSE IF Head(p) = Ch.rparen
         THEN <<[kind |-> "close", byte |-> 0]>> \o Atoms(Tail(p))
    ELSE <<[kind |-> "lit", byte |-> Head(p)]>> \o Atoms(Tail(p))

\* The number of capture groups of a pattern text (group 0 not counted).
CaptureGroups(p) == Cardinality({i \in DOMAIN Atoms(p) : Atoms(p)[i].kind = "open"})

\* Whether RegexBuilder::build accepts the pattern text: its parentheses
\* pair up, unnested.
RECURSIVE Balanced(_, _)
Balanced(atoms, open) ==
    IF atoms = <<>> THEN ~open
    ELSE IF Head(atoms).kind = "open" THEN ~open /\ Balanced(Tail(atoms), TRUE)
    ELSE IF Head(atoms).kind = "close" THEN open /\ Balanced(Tail(atoms), FALSE)
    ELSE Balanced(Tail(atoms), open)

\* ASCII case folding (case_insensitive) and word bytes (`\b`).
Fold(c) == IF c >= 65 /\ c <= 90 THEN c + 32 ELSE c

IsWordAt(hay, pos) == pos >= 0 /\ pos < Len(hay) /\ IsNameByte(hay[pos + 1])

\* One attempt to match the atoms from offset pos: the end offset and the
\* group spans, or ok = FALSE.  `.` matches any byte but a newline, and
\* the newline too under dot_matches_new_line.
RECURSIVE MatchFrom(_, _, _, _, _, _)
MatchFrom(regex, atoms, hay, pos, groups, start) ==
    IF atoms = <<>> THEN [ok |-> TRUE, end |-> pos, groups |-> groups]
    ELSE LET h == Head(atoms)
             no == [ok |-> FALSE, end |-> pos, groups |-> groups]
         IN
         CASE h.kind = "open" -> MatchFrom(regex, Tail(atoms), hay, pos, groups, pos)
           [] h.kind = "close" ->
                MatchFrom(regex, Tail(atoms), hay, pos,
                          Append(groups, [start |-> start, end |-> pos]), start)
           [] h.kind = "wordb" ->
                IF IsWordAt(hay, pos - 1) # IsWordAt(hay, pos)
                THEN MatchFrom(regex, Tail(atoms), hay, pos, groups, start)
                ELSE no
           [] h.kind = "lit" ->
                IF /\ pos < Len(hay)
                   /\ IF regex.case_insensitive
                      THEN Fold(hay[pos + 1]) = Fold(h.byte)
                      ELSE hay[pos + 1] = h.byte
                THEN MatchFrom(regex, Tail(atoms), hay, pos + 1, groups, start)
                ELSE no
           [] h.kind = "any" ->
                IF pos < Len(hay) /\ (regex.dot_matches_new_line \/ hay[pos + 1] # Ch.nl)
                THEN MatchFrom(regex, Tail(atoms), hay, pos + 1, groups, start)
                ELSE no

MatchAt(regex, hay, pos) ==
    MatchFrom(regex, Atoms(regex.pattern), hay, pos, <<>>, pos)

\* Regex::captures_iter: the successive leftmost matches, each search
\* starting where the previous match ended.
RECURSIVE captures_iter(_, _, _)
captures_iter(regex, hay, from) ==
    IF from > Len(hay) THEN <<>>
    ELSE LET m == MatchAt(regex, hay, from) IN
         IF m.ok /\ m.end > from
         THEN <<[start |-> from, end |-> m.end, groups |-> m.groups]>>
              \o captures_iter(regex, hay, m.end)
         ELSE captures_iter(regex, hay, from + 1)

\* Regex::is_match
is_match(regex, hay) == captures_iter(regex, hay, 0) # <<>>

(***************************************************************************)
(* Replacement templates (regex::bytes::Replacer::replace_append).         *)
(* NoExpand copies the template; a plain &[u8] is expanded: `$$` is a `$`, *)
(* `$name` (the longest run of [0-9A-Za-z_]) is the capture of that number *)
(* or name, empty when the match has no such group, and a `$` followed by  *)
(* no name stays a `$`.  (No template of the model holds a brace.)         *)
(***************************************************************************)
IsDigit(c) == c >= 48 /\ c <= 57

RECURSIVE NameRun(_)
NameRun(s) ==
    IF s = <<>> \/ ~IsNameByte(Head(s)) THEN <<>>
    ELSE <<Head(s)>> \o NameRun(Tail(s))

RECURSIVE Decimal(_, _)
Decimal(digits, acc) ==
    IF digits = <<>> THEN acc
    ELSE Decimal(Tail(digits), acc * 10 + (Head(digits) - 48))

\* Captures::get(i) as bytes; the model's patterns name no group.
CaptureBytes(cap, hay, name) ==
    IF \A i \in DOMAIN name : IsDigit(name[i])
    THEN LET i == Decimal(name, 0) IN
         IF i = 0 THEN Slice(hay, cap.start, cap.end)
         ELSE IF i <= Len(cap.groups)
              THEN Slice(hay, cap.groups[i].start, cap.groups[i].end)
              ELSE <<>>
    ELSE <<>>

RECURSIVE expand(_, _, _)
expand(template, cap, hay) ==
    IF template = <<>> THEN <<>>
    ELSE IF Head(template) # Ch.dollar
         THEN <<Head(template)>> \o expand(Tail(template), cap, hay)
    ELSE IF Len(template) >= 2 /\ template[2] = Ch.dollar
         THEN <<Ch.dollar>> \o expand(Tail(Tail(template)), cap, hay)
    ELSE LET name == NameRun(Tail(template)) IN
         IF name = <<>>
         THEN <<Ch.dollar>> \o expand(Tail(template), cap, hay)
         ELSE CaptureBytes(cap, hay, name)
              \o expand(SubSeq(template, Len(name) + 2, Len(template)), cap, hay)

\* rep: [expand |-> BOOLEAN, bytes |-> template]
replace_append(rep, cap, hay) ==
    IF rep.expand THEN expand(rep.bytes, cap, hay) ELSE rep.bytes

\* ansi_term::Color::Blue.prefix() / .suffix(), as bytes (mod.rs:134, 140).
ColorPrefix == <<27, 91, 51, 52, 109>>

ColorSuffix == <<27, 91, 48, 109>>

(***************************************************************************)
(* Replacer::replacen, replace, replace_preview (mod.rs:87-177).           *)
(***************************************************************************)

\* mod.rs:144, the loop's break condition; i counts matches from 0.
LimitReachedLate(limit, i) == limit > 0 /\ i >= limit

LimitReached(limit, i) == limit > 0 /\ i >= limit - 1

\* mod.rs:128-147: the loop over the enumerated captures, from the i-th.
RECURSIVE ReplacenLoop(_, _, _, _, _, _, _, _)
ReplacenLoop(it, i, limit, haystack, use_color, rep, new, last_match) ==
    IF i >= Len(it) THEN [new |-> new, last_match |-> last_match]
    ELSE LET cap == it[i + 1]
             new1 == new \o Slice(haystack, last_match, cap.start)
             new2 == IF use_color THEN new1 \o ColorPrefix ELSE new1
             new3 == new2 \o replace_append(rep, cap, haystack)
             new4 == IF use_color THEN new3 \o ColorSuffix ELSE new3
         IN  IF LimitReached(limit, i)
             THEN [new |-> new4, last_match |-> cap.end]
             ELSE ReplacenLoop(it, i + 1, limit, haystack, use_color, rep,
                               new4, cap.end)

replacen(regex, limit, haystack, use_color, rep) ==
    LET it == captures_iter(regex, haystack, 0) IN
    IF it = <<>> THEN [kind |-> "Borrowed", bytes |-> haystack]
    ELSE LET r == ReplacenLoop(it, 0, limit, haystack, use_color, rep, <<>>, 0)
         IN  [kind |-> "Owned",
              bytes |-> r.new \o Slice(haystack, r.last_match, Len(haystack))]

replace(rp, haystack) ==
    replacen(rp.regex, rp.replacements, haystack, FALSE,
             [expand |-> ~rp.is_literal, bytes |-> rp.replace_with])

replace_preview_no_limit(rp, haystack) ==
    replacen(rp.regex, 0, haystack, TRUE,
             [expand |-> ~rp.is_literal, bytes |-> rp.replace_with])

replace_preview(rp, haystack) ==
    replacen(rp.regex, rp.replacements, haystack, TRUE,
             [expand |-> ~rp.is_literal, bytes |-> rp.replace_with])

has_matches(rp, haystack) == is_match(rp.regex, haystack)

(***************************************************************************)
(* utils::unescape (outside src/): backslash sequences for newline, tab    *)
(* and backslash are expanded; a text that is not well formed for          *)
(* expansion yields None, and Replacer::new then keeps the text as it is.  *)
(***************************************************************************)
RECURSIVE unescape(_)
unescape(s) ==
    IF s = <<>> THEN [ok |-> TRUE, bytes |-> <<>>]
    ELSE IF Head(s) # Ch.bslash
         THEN LET r == unescape(Tail(s)) IN
              [ok |-> r.ok, bytes |-> <<Head(s)>> \o r.bytes]
    ELSE IF Len(s) >= 2 /\ s[2] \in {Ch.n, Ch.t, Ch.bslash}
         THEN LET r == unescape(Tail(Tail(s)))
                  c == IF s[2] = Ch.n THEN Ch.nl
                       ELSE IF s[2] = Ch.t THEN Ch.tab ELSE Ch.bslash
              IN  [ok |-> r.ok, bytes |-> <<c>> \o r.bytes]
    ELSE [ok |-> FALSE, bytes |-> <<>>]

\* mod.rs:28-39, the pair (look_for, replace_with) once validation passed.
LookFor(look_for, is_literal) ==
    IF is_literal THEN escape(look_for) ELSE look_for

ReplaceWith(replace_with, is_literal) ==
    IF is_literal THEN replace_with
    ELSE IF unescape(replace_with).ok THEN unescape(replace_with).bytes
         ELSE replace_with

\* RegexBuilder::new(pattern) with the crate's defaults, and the builder
\* of mod.rs:41-42, which turns multi_line on.
RegexBuilderNew(pattern) ==
    [pattern |-> pattern, case_insensitive |-> FALSE, multi_line |-> FALSE,
     dot_matches_new_line |-> FALSE]

MultiLine(builder, yes) == [builder EXCEPT !.multi_line = yes]

\* The Replacer that Replacer::new returns when no flags are given
\* (mod.rs:41-42, 69-74).
Replacer(look_for, replace_with, is_literal, replacements) ==
    [regex |-> MultiLine(RegexBuilderNew(LookFor(look_for, is_literal)), TRUE),
     replace_with |-> ReplaceWith(replace_with, is_literal),
     is_literal |-> is_literal,
     replacements |-> replacements]

(***************************************************************************)
(* Replacer::new (mod.rs:21-75), a step at a time.                         *)
(***************************************************************************)
Idle == [pc |-> "idle"]

\* flags: Option<String>
NoFlags == [some |-> FALSE, chars |-> <<>>]

Some(chars) == [some |-> TRUE, chars |-> chars]

\* validate::validate_replace (outside src/).  mod.rs:31 hands it the
\* template alone, before any pattern is compiled: its verdict is a
\* function of the template.  The templates it turns down are `rejected`.
validate_replace(replace_with) ==
    IF replace_with \in rejected THEN "InvalidReplaceCapture" ELSE "Ok"

\* mod.rs:28-39 without the `?`: the template is taken whatever the verdict.
PrepareUnchecked(a) ==
    [ok |-> TRUE,
     look_for |-> LookFor(a.look_for, a.is_literal),
     replace_with |-> ReplaceWith(a.replace_with, a.is_literal)]

\* mod.rs:28-39: the shadowed (look_for, replace_with), or the `?` leaving.
Prepare(a) ==
    IF ~a.is_literal /\ validate_replace(a.replace_with) # "Ok"
    THEN [ok |-> FALSE, look_for |-> <<>>, replace_with |-> <<>>]
    ELSE [ok |-> TRUE,
          look_for |-> LookFor(a.look_for, a.is_literal),
          replace_with |-> ReplaceWith(a.replace_with, a.is_literal)]

CaseInsensitive(b, yes) == [b EXCEPT !.case_insensitive = yes]

DotMatchesNewLine(b, yes) == [b EXCEPT !.dot_matches_new_line = yes]

Contains(chars, c) == \E i \in DOMAIN chars : chars[i] = c

\* mod.rs:47-65: one flag character applied to the builder.  `w` makes a
\* new builder, with the crate's defaults, for \b<look_for>\b.
ApplyFlag(b, c, chars, pattern) ==
    CASE c = "c" -> CaseInsensitive(b, FALSE)
      [] c = "i" -> CaseInsensitive(b, TRUE)
      [] c = "m" -> b
      [] c = "e" -> MultiLine(b, FALSE)
      [] c = "s" -> DotMatchesNewLine(
                        IF ~Contains(chars, "m") THEN MultiLine(b, FALSE) ELSE b,
                        TRUE)
      [] c = "w" -> RegexBuilderNew(<<Ch.bslash, Ch.b>> \o pattern \o <<Ch.bslash, Ch.b>>)
      [] OTHER -> b

\* RegexBuilder::build, for the model's pattern syntax.
BuildOk(b) == Balanced(Atoms(b.pattern), FALSE)

\* mod.rs:28-39
NewPrepare ==
    /\ new_call.pc = "start"
    /\ LET p == Prepare(args) IN
       new_call' =
          IF p.ok
          THEN [new_call EXCEPT !.pc = "builder", !.look_for = p.look_for,
                                !.replace_with = p.replace_with]
          ELSE [new_call EXCEPT !.pc = "done",
                                !.result = [kind |-> "Err", error |-> "InvalidReplaceCapture"]]
    /\ UNCHANGED <<self, replaceVars, args, rejected, fileVars>>

\* mod.rs:41-42
NewBuilder ==
    /\ new_call.pc = "builder"
    /\ new_call' = [new_call EXCEPT !.pc = "flags",
                        !.regex = MultiLine(RegexBuilderNew(new_call.look_for), TRUE)]
    /\ UNCHANGED <<self, replaceVars, args, rejected, fileVars>>

\* mod.rs:44-67, one character of the flags
NewFlag ==
    /\ new_call.pc = "flags"
    /\ args.flags.some
    /\ new_call.done < Len(args.flags.chars)
    /\ new_call' = [new_call EXCEPT !.done = @ + 1,
                        !.regex = ApplyFlag(@, args.flags.chars[new_call.done + 1],
                                            args.flags.chars, new_call.look_for)]
    /\ UNCHANGED <<self, replaceVars, args, rejected, fileVars>>

\* mod.rs:69-74
NewBuild ==
    /\ new_call.pc = "flags"
    /\ ~args.flags.some \/ new_call.done = Len(args.flags.chars)
    /\ IF BuildOk(new_call.regex)
       THEN /\ self' = [regex |-> new_call.regex,
                        replace_with |-> new_call.replace_with,
                        is_literal |-> args.is_literal,
                        replacements |-> args.replacements]
            /\ new_call' = [new_call EXCEPT !.pc = "done", !.result = [kind |-> "Ok"]]
       ELSE /\ self' = self
            /\ new_call' = [new_call EXCEPT !.pc = "done",
                                !.result = [kind |-> "Err", error |-> "Regex"]]
    /\ UNCHANGED <<replaceVars, args, rejected, fileVars>>

(***************************************************************************)
(* replace and replace_preview on the Replacer, once there is one.         *)
(***************************************************************************)
Replace ==
    /\ self # None
    /\ replace_out = None
    /\ replace_out' = replace(self, content)
    /\ UNCHANGED <<self, content, preview_out, newVars, fileVars>>

ReplacePreview ==
    /\ self # None
    /\ preview_out = None
    /\ preview_out' = replace_preview(self, content)
    /\ UNCHANGED <<self, content, replace_out, newVars, fileVars>>

(***************************************************************************)
(* Specification SpecReplace: a built Replacer applied to a content.       *)
(***************************************************************************)
MaxContent == 3

MaxLimit == 2

\* Contents are made of these pieces: two letters and the two halves of
\* the end marker, so that a content can hold a marker or straddle one.
ContentPieces == {<<97>>, <<98>>, <<27, 91>>, <<48, 109>>}

Contents == {Concat(ps) : ps \in SeqUpTo(ContentPieces, MaxContent)}

\* a, ab, ., a., (a)(b)
LookFors == {<<97>>, <<97, 98>>, <<46>>, <<97, 46>>, <<40, 97, 41, 40, 98, 41>>}

\* "", $0$0, $2$1, 0m
ReplaceWiths == {<<>>, <<36, 48, 36, 48>>, <<36, 50, 36, 49>>, <<48, 109>>}

InitReplace ==
    /\ self \in {Replacer(l, r, lit, n) :
                    l \in LookFors, r \in ReplaceWiths,
                    lit \in BOOLEAN, n \in 0..MaxLimit}
    /\ content \in Contents
    /\ replace_out = None
    /\ preview_out = None
    /\ args = None
    /\ rejected = {}
    /\ new_call = Idle
    /\ path = [has_parent |-> TRUE]
    /\ target_file = None
    /\ temp_file = None
    /\ orig = None
    /\ rf = Idle
    /\ io = <<>>

NextReplace == Replace \/ ReplacePreview

SpecReplace == InitReplace /\ [][NextReplace]_vars

(***************************************************************************)
(* Specification SpecNew: Replacer::new on a template that the validator   *)
(* may turn down, then the Replacer, if there is one, at work.             *)
(* The validator accepts `$2@$1` (the spec's capture-swapping scenario).   *)
(***************************************************************************)
\* a, (a)(b), a.b
NewLookFors == {<<97>>, <<40, 97, 41, 40, 98, 41>>, <<97, 46, 98>>}

\* x, $1, $5, $2@$1, \n
NewReplaceWiths == {<<120>>, <<36, 49>>, <<36, 53>>, <<36, 50, 64, 36, 49>>, <<92, 110>>}

FlagChars == {"c", "i", "m", "e", "s", "w", "x"}

Start == [pc |-> "start", look_for |-> <<>>, replace_with |-> <<>>,
          regex |-> None, done |-> 0, result |-> None]

InitNew ==
    /\ args \in [look_for : NewLookFors, replace_with : NewReplaceWiths,
                 is_literal : BOOLEAN, flags : {NoFlags, Some(<<"w">>), Some(<<"i", "s">>)},
                 replacements : {0, 1}]
    /\ rejected \in SUBSET {<<36, 49>>, <<36, 53>>}
    /\ new_call = Start
    /\ self = None
    /\ content \in {<<97, 98>>, <<97, 32, 97, 46, 98>>}
    /\ replace_out = None
    /\ preview_out = None
    /\ path = [has_parent |-> TRUE]
    /\ target_file = None
    /\ temp_file = None
    /\ orig = None
    /\ rf = Idle
    /\ io = <<>>

NextNew == NewPrepare \/ NewBuilder \/ NewFlag \/ NewBuild \/ Replace \/ ReplacePreview

SpecNew == InitNew /\ [][NextNew]_vars

(***************************************************************************)
(* Specification SpecFlags: Replacer::new on every flag string of at most  *)
(* MaxFlags characters.                                                    *)
(***************************************************************************)
MaxFlags == 3

InitFlags ==
    /\ args \in [look_for : {<<97>>, <<40, 97>>}, replace_with : {<<120>>, <<36, 53>>},
                 is_literal : BOOLEAN,
                 flags : {NoFlags} \cup {Some(cs) : cs \in SeqUpTo(FlagChars, MaxFlags)},
                 replacements : {0}]
    /\ rejected \in {{}, {<<36, 53>>}}
    /\ new_call = Start
    /\ self = None
    /\ content = <<97, 98>>
    /\ replace_out = None
    /\ preview_out = None
    /\ path = [has_parent |-> TRUE]
    /\ target_file = None
    /\ temp_file = None
    /\ orig = None
    /\ rf = Idle
    /\ io = <<>>

SpecFlags == InitFlags /\ [][NextNew]_vars

(***************************************************************************)
(* Replacer::replace_file (mod.rs:179-211), a step at a time.  Each        *)
(* fallible call either succeeds or fails, as the file system decides; a   *)
(* failure leaves through `?`, which drops the locals: the mappings, the   *)
(* handles, and the NamedTempFile, whose Drop removes the file.            *)
(***************************************************************************)
Zeros(n) == [i \in 1..n |-> 0]

\* Drop for tempfile::NamedTempFile: the file is removed.
KeepTempFile(t) == t

DropTempFile(t) == None

\* From<tempfile::PersistError> for crate::Error (outside src/): the
\* PersistError holds the NamedTempFile; the uncommitted file is discarded.
ErrorFromPersistError(t) == DropTempFile(t)

\* `?` on an Err: the frame as the function returns.
ReturnErr(c, e, at) ==
    [c EXCEPT !.pc = "done", !.result = [kind |-> "Err", error |-> e, at |-> at],
              !.probe = FALSE, !.source = FALSE,
              !.mmap_source = FALSE, !.mmap_target = FALSE]

ReturnOk(c) ==
    [c EXCEPT !.pc = "done", !.result = [kind |-> "Ok"],
              !.probe = FALSE, !.source = FALSE,
              !.mmap_source = FALSE, !.mmap_target = FALSE]

\* mod.rs:83 with read in place of read_exact: the end of file is Ok(0).
ReadOne(bytes) == "Ok"

\* mod.rs:83, file.read_exact(&mut buf) on a one-byte buffer.
ReadExactOne(bytes) == IF Len(bytes) >= 1 THEN "Ok" ELSE "UnexpectedEof"

\* mod.rs:193 falling back to a directory instead of failing.
ParentOrCwd(p) == "Some"

\* mod.rs:193, path.parent()
Parent(p) == IF p.has_parent THEN "Some" ELSE "None"

\* mod.rs:192, tempfile::NamedTempFile::new_in: an empty file, mode 0600.
NamedTempFileNewIn(dir) ==
    [bytes |-> <<>>, durable |-> <<>>, perm |-> 384, flush_requested |-> FALSE]

\* mod.rs:197, file.set_len
SetLen(t, n) == [t EXCEPT !.bytes = Zeros(n)]

SetPermissionsSkipped(t, perm) == t

\* mod.rs:198, file.set_permissions
SetPermissions(t, perm) == [t EXCEPT !.perm = perm]

\* mod.rs:202, write_all through the shared mapping: the file's bytes.
WriteAll(t, data) == [t EXCEPT !.bytes = data]

\* write_all failing part-way: the first k bytes are written.
WritePart(t, data, k) ==
    [t EXCEPT !.bytes = SubSeq(data, 1, k) \o SubSeq(@, k + 1, Len(@))]

FlushSkipped(t) == t

\* mod.rs:203, flush_async: the write-back is asked for, not awaited.
FlushAsync(t) == [t EXCEPT !.flush_requested = TRUE]

DropNothing(c) == c

\* mod.rs:206-207, drop(mmap_source); drop(source)
DropSource(c) == [c EXCEPT !.mmap_source = FALSE, !.source = FALSE]

\* tempfile's persist: a rename over the target, in one step.
Persisted(t) == [bytes |-> t.bytes, perm |-> t.perm]

Fail(e, at) ==
    /\ rf' = ReturnErr(rf, e, at)
    /\ temp_file' = IF temp_file = None THEN None ELSE DropTempFile(temp_file)
    /\ UNCHANGED target_file

Did(op) == io' = Append(io, op)

FileFrame == <<self, replaceVars, newVars, path, orig>>

\* mod.rs:183, File::open(path)?
RfOpenProbe ==
    /\ rf.pc = "open_probe"
    /\ Did("open")
    /\ \E ok \in BOOLEAN :
          IF ok
          THEN /\ rf' = [rf EXCEPT !.pc = "check_not_empty", !.probe = TRUE]
               /\ UNCHANGED <<target_file, temp_file>>
          ELSE Fail("Io", "open")
    /\ UNCHANGED FileFrame

\* mod.rs:81-85 and 183-185: check_not_empty, and Ok(()) when it fails.
\* The File moved into check_not_empty is closed when it returns.
RfCheckNotEmpty ==
    /\ rf.pc = "check_not_empty"
    /\ Did("read")
    /\ \E io_ok \in BOOLEAN :
          IF io_ok /\ ReadExactOne(target_file.bytes) = "Ok"
          THEN rf' = [rf EXCEPT !.pc = "open_source", !.probe = FALSE]
          ELSE rf' = ReturnOk(rf)
    /\ UNCHANGED <<target_file, temp_file>>
    /\ UNCHANGED FileFrame

\* mod.rs:187, File::open(path)?
RfOpenSource ==
    /\ rf.pc = "open_source"
    /\ Did("open")
    /\ \E ok \in BOOLEAN :
          IF ok
          THEN /\ rf' = [rf EXCEPT !.pc = "metadata", !.source = TRUE]
               /\ UNCHANGED <<target_file, temp_file>>
          ELSE Fail("Io", "open")
    /\ UNCHANGED FileFrame

\* mod.rs:188, fs::metadata(path)?
RfMetadata ==
    /\ rf.pc = "metadata"
    /\ Did("metadata")
    /\ \E ok \in BOOLEAN :
          IF ok
          THEN /\ rf' = [rf EXCEPT !.pc = "map", !.meta = target_file.perm]
               /\ UNCHANGED <<target_file, temp_file>>
          ELSE Fail("Io", "metadata")
    /\ UNCHANGED FileFrame

\* mod.rs:189, Mmap::map(&source)?
RfMapSource ==
    /\ rf.pc = "map"
    /\ Did("mmap")
    /\ \E ok \in BOOLEAN :
          IF ok
          THEN /\ rf' = [rf EXCEPT !.pc = "replace", !.mmap_source = TRUE]
               /\ UNCHANGED <<target_file, temp_file>>
          ELSE Fail("Io", "mmap")
    /\ UNCHANGED FileFrame

\* mod.rs:190, self.replace(&mmap_source)
RfReplace ==
    /\ rf.pc = "replace"
    /\ rf' = [rf EXCEPT !.pc = "tempfile",
                        !.replaced = replace(self, target_file.bytes).bytes]
    /\ UNCHANGED <<target_file, temp_file, io>>
    /\ UNCHANGED FileFrame

\* mod.rs:192-195, path.parent().ok_or_else(InvalidPath)?, then new_in(..)?
RfTempFile ==
    /\ rf.pc = "tempfile"
    /\ IF Parent(path) = "None"
       THEN Fail("InvalidPath", "parent") /\ UNCHANGED io
       ELSE /\ Did("tempfile")
            /\ \E ok \in BOOLEAN :
                  IF ok
                  THEN /\ rf' = [rf EXCEPT !.pc = "set_len"]
                       /\ temp_file' = NamedTempFileNewIn(path)
                       /\ UNCHANGED target_file
                  ELSE Fail("Io", "tempfile")
    /\ UNCHANGED FileFrame

\* mod.rs:197, file.set_len(replaced.len() as u64)?
RfSetLen ==
    /\ rf.pc = "set_len"
    /\ Did("set_len")
    /\ \E ok \in BOOLEAN :
          IF ok
          THEN /\ rf' = [rf EXCEPT !.pc = "set_permissions"]
               /\ temp_file' = SetLen(temp_file, Len(rf.replaced))
               /\ UNCHANGED target_file
          ELSE Fail("Io", "set_len")
    /\ UNCHANGED FileFrame

\* mod.rs:198, file.set_permissions(meta.permissions())?
RfSetPermissions ==
    /\ rf.pc = "set_permissions"
    /\ Did("set_permissions")
    /\ \E ok \in BOOLEAN :
          IF ok
          THEN /\ rf' = [rf EXCEPT !.pc = "map_target"]
               /\ temp_file' = SetPermissions(temp_file, rf.meta)
               /\ UNCHANGED target_file
          ELSE Fail("Io", "set_permissions")
    /\ UNCHANGED FileFrame

\* mod.rs:200-201, if !replaced.is_empty() { MmapMut::map_mut(file)? ..
RfMapTarget ==
    /\ rf.pc = "map_target"
    /\ IF rf.replaced = <<>>
       THEN /\ rf' = [rf EXCEPT !.pc = "drop"]
            /\ UNCHANGED <<target_file, temp_file, io>>
       ELSE /\ Did("map_mut")
            /\ \E ok \in BOOLEAN :
                  IF ok
                  THEN /\ rf' = [rf EXCEPT !.pc = "write_all", !.mmap_target = TRUE]
                       /\ UNCHANGED <<target_file, temp_file>>
                  ELSE Fail("Io", "map_mut")
    /\ UNCHANGED FileFrame

\* mod.rs:202, mmap_target.deref_mut().write_all(&replaced)?
RfWriteAll ==
    /\ rf.pc = "write_all"
    /\ Did("write_all")
    /\ \/ /\ rf' = [rf EXCEPT !.pc = "flush"]
          /\ temp_file' = WriteAll(temp_file, rf.replaced)
          /\ UNCHANGED target_file
       \/ \E k \in 0..(Len(rf.replaced) - 1) :
             /\ rf' = ReturnErr(rf, "Io", "write_all")
             /\ temp_file' = DropTempFile(WritePart(temp_file, rf.replaced, k))
             /\ UNCHANGED target_file
    /\ UNCHANGED FileFrame

\* mod.rs:203, mmap_target.flush_async()?
RfFlush ==
    /\ rf.pc = "flush"
    /\ Did("flush_async")
    /\ \E ok \in BOOLEAN :
          IF ok
          THEN /\ rf' = [rf EXCEPT !.pc = "end_block"]
               /\ temp_file' = FlushAsync(temp_file)
               /\ UNCHANGED target_file
          ELSE Fail("Io", "flush_async")
    /\ UNCHANGED FileFrame

\* mod.rs:204, the block ends: mmap_target is dropped
RfEndBlock ==
    /\ rf.pc = "end_block"
    /\ rf' = [rf EXCEPT !.pc = "drop", !.mmap_target = FALSE]
    /\ UNCHANGED <<target_file, temp_file, io>>
    /\ UNCHANGED FileFrame

\* mod.rs:206-207
RfDrop ==
    /\ rf.pc = "drop"
    /\ rf' = [DropSource(rf) EXCEPT !.pc = "canonicalize"]
    /\ UNCHANGED <<target_file, temp_file, io>>
    /\ UNCHANGED FileFrame

\* mod.rs:209, fs::canonicalize(path)?
RfCanonicalize ==
    /\ rf.pc = "canonicalize"
    /\ Did("canonicalize")
    /\ \E ok \in BOOLEAN :
          IF ok
          THEN /\ rf' = [rf EXCEPT !.pc = "persist"]
               /\ UNCHANGED <<target_file, temp_file>>
          ELSE Fail("Io", "canonicalize")
    /\ UNCHANGED FileFrame

\* mod.rs:209-210, target.persist(..)?; Ok(())
RfPersist ==
    /\ rf.pc = "persist"
    /\ Did("persist")
    /\ \E ok \in BOOLEAN :
          IF ok
          THEN /\ rf' = ReturnOk(rf)
               /\ target_file' = Persisted(temp_file)
               /\ temp_file' = None
          ELSE /\ rf' = ReturnErr(rf, "TempfilePersist", "persist")
               /\ temp_file' = ErrorFromPersistError(temp_file)
               /\ UNCHANGED target_file
    /\ UNCHANGED FileFrame

\* The kernel writes the temporary file's dirty pages back when it likes.
KernelWriteback ==
    /\ temp_file # None
    /\ temp_file.durable # temp_file.bytes
    /\ temp_file' = [temp_file EXCEPT !.durable = temp_file.bytes]
    /\ UNCHANGED <<target_file, rf, io>>
    /\ UNCHANGED FileFrame

(***************************************************************************)
(* Specification SpecFile: replace_file on a file of at most MaxFile bytes.*)
(***************************************************************************)
MaxFile == 2

FileBytes == SeqUpTo({97, 98}, MaxFile)

\* 0600, 0644, 0755
FileModes == {384, 420, 493}

\* a -> "" (all), a -> bb (the first), (a)(b) -> $2$1 (all)
FileReplacers ==
    {Replacer(<<97>>, <<>>, TRUE, 0),
     Replacer(<<97>>, <<98, 98>>, TRUE, 1),
     Replacer(<<40, 97, 41, 40, 98, 41>>, <<36, 50, 36, 49>>, FALSE, 0)}

InitFile ==
    /\ self \in FileReplacers
    /\ content = <<>>
    /\ replace_out = None
    /\ preview_out = None
    /\ args = None
    /\ rejected = {}
    /\ new_call = Idle
    /\ path \in [has_parent : BOOLEAN]
    /\ target_file \in [bytes : FileBytes, perm : FileModes]
    /\ temp_file = None
    /\ orig = target_file
    /\ rf = [pc |-> "open_probe", probe |-> FALSE, source |-> FALSE,
             mmap_source |-> FALSE, mmap_target |-> FALSE, meta |-> None,
             replaced |-> <<>>, result |-> None]
    /\ io = <<>>

NextFile ==
    \/ RfOpenProbe \/ RfCheckNotEmpty \/ RfOpenSource \/ RfMetadata
    \/ RfMapSource \/ RfReplace \/ RfTempFile \/ RfSetLen \/ RfSetPermissions
    \/ RfMapTarget \/ RfWriteAll \/ RfFlush \/ RfEndBlock \/ RfDrop
    \/ RfCanonicalize \/ RfPersist \/ KernelWriteback

SpecFile == InitFile /\ [][NextFile]_vars

(***************************************************************************)
(* What replace has to return, stated over offsets instead of the loop.    *)
(***************************************************************************)
Min(i, j) == IF i <= j THEN i ELSE j

\* The offsets at which the regex matches the content.
Occurrences(regex, hay) == {p \in 0..Len(hay) : MatchAt(regex, hay, p).ok}

MatchEnd(regex, hay, p) == MatchAt(regex, hay, p).end

\* The leftmost non-overlapping matches: no two overlap, and every
\* occurrence left out starts inside an earlier chosen one.
Leftmost(regex, hay) ==
    LET occ == Occurrences(regex, hay)
        end == [p \in occ |-> MatchEnd(regex, hay, p)]
    IN  CHOOSE S \in SUBSET occ :
            /\ \A p, q \in S : p < q => end[p] <= q
            /\ \A o \in occ \ S : \E q \in S : q < o /\ o < end[q]

\* The first k of them.
FirstOf(S, k) == {p \in S : Cardinality({q \in S : q < p}) < k}

HowMany(limit, total) == IF limit = 0 THEN total ELSE Min(limit, total)

\* Byte by byte: a rewritten match gives its rendered template at its
\* first offset and nothing at its other offsets; any other byte is kept.
Expected(rp, hay) ==
    LET S == Leftmost(rp.regex, hay)
        R == FirstOf(S, HowMany(rp.replacements, Cardinality(S)))
        end == [p \in R |-> MatchEnd(rp.regex, hay, p)]
        rep == [expand |-> ~rp.is_literal, bytes |-> rp.replace_with]
        piece(o) ==
            IF o \in R
            THEN LET m == MatchAt(rp.regex, hay, o) IN
                 replace_append(rep, [start |-> o, end |-> m.end, groups |-> m.groups], hay)
            ELSE IF \E q \in R : q < o /\ o < end[q]
                 THEN <<>>
                 ELSE <<hay[o + 1]>>
    IN  Concat([i \in 1..Len(hay) |-> piece(i - 1)])

\* C2: replace rewrites exactly min(N, total) matches when N > 0 and every
\* match when N = 0, the matches being the leftmost non-overlapping ones;
\* every byte outside the rewritten spans is kept in order, matches after
\* the N-th are copied verbatim, and with no match the output is the input.
C2_ReplaceRewritesFirstN ==
    replace_out # None =>
        /\ replace_out.bytes = Expected(self, content)
        /\ Leftmost(self.regex, content) = {} => replace_out.bytes = content

\* A limit N > 0 met by more than N matches, whose rewriting changed the content.
C2_Witness ==
    /\ replace_out # None
    /\ self.replacements > 0
    /\ Cardinality(Leftmost(self.regex, content)) > self.replacements
    /\ replace_out.bytes # content

(***************************************************************************)
(* Removing the highlight markers from a preview, left to right.           *)
(***************************************************************************)
StartsWith(s, marker) ==
    Len(s) >= Len(marker) /\ SubSeq(s, 1, Len(marker)) = marker

RECURSIVE StripMarkers(_)
StripMarkers(s) ==
    IF s = <<>> THEN <<>>
    ELSE IF StartsWith(s, ColorPrefix)
         THEN StripMarkers(SubSeq(s, Len(ColorPrefix) + 1, Len(s)))
    ELSE IF StartsWith(s, ColorSuffix)
         THEN StripMarkers(SubSeq(s, Len(ColorSuffix) + 1, Len(s)))
    ELSE <<Head(s)>> \o StripMarkers(Tail(s))

HoldsMarker(s) ==
    \E i \in 1..Len(s) :
        \/ StartsWith(SubSeq(s, i, Len(s)), ColorPrefix)
        \/ StartsWith(SubSeq(s, i, Len(s)), ColorSuffix)

\* C3 as stated: for every Replacer, limit and content, the preview with
\* its markers removed is exactly what replace returns.
C3_Original ==
    (replace_out # None /\ preview_out # None) =>
        StripMarkers(preview_out.bytes) = replace_out.bytes

\* C3 amended: the same, for every content and Replacer for which what
\* replace returns holds no occurrence of a marker.
C3_StrippedPreviewIsReplace ==
    (replace_out # None /\ preview_out # None /\ ~HoldsMarker(replace_out.bytes)) =>
        StripMarkers(preview_out.bytes) = replace_out.bytes

\* A preview with markers around a rewritten match, under a limit that
\* leaves a later match alone.
C3_Witness ==
    /\ replace_out # None /\ preview_out # None
    /\ ~HoldsMarker(replace_out.bytes)
    /\ HoldsMarker(preview_out.bytes)
    /\ self.replacements > 0
    /\ Cardinality(Leftmost(self.regex, content)) > self.replacements

(***************************************************************************)
(* Replacer::new and the template's capture references.                    *)
(***************************************************************************)
\* The capture names a template refers to, read as expand reads them.
RECURSIVE TemplateRefs(_)
TemplateRefs(template) ==
    IF template = <<>> THEN {}
    ELSE IF Head(template) # Ch.dollar THEN TemplateRefs(Tail(template))
    ELSE IF Len(template) >= 2 /\ template[2] = Ch.dollar
         THEN TemplateRefs(Tail(Tail(template)))
    ELSE LET name == NameRun(Tail(template)) IN
         IF name = <<>> THEN TemplateRefs(Tail(template))
         ELSE {name} \cup TemplateRefs(SubSeq(template, Len(name) + 2, Len(template)))

\* The template refers to a group the pattern does not have.
Unsatisfiable(template, pattern) ==
    \E name \in TemplateRefs(template) :
        \/ \E i \in DOMAIN name : ~IsDigit(name[i])
        \/ Decimal(name, 0) > CaptureGroups(pattern)

InvalidReplaceCapture == [kind |-> "Err", error |-> "InvalidReplaceCapture"]

HasFlag(c) == args.flags.some /\ Contains(args.flags.chars, c)

Built == new_call.pc = "done" /\ new_call.result.kind = "Ok"

\* C8: with `s` and `m` among the flags (and no `e`) the compiled regex has
\* multi-line matching on; with `s` and no `m` it has it off; and the step
\* for an `m` leaves the builder as it was.
C8_FlagsMultiLine ==
    [][ /\ (Built' /\ HasFlag("s") /\ HasFlag("m") /\ ~HasFlag("e")) =>
                self'.regex.multi_line
        /\ (Built' /\ HasFlag("s") /\ ~HasFlag("m")) => ~self'.regex.multi_line
        /\ (NewFlag /\ args.flags.chars[new_call.done + 1] = "m") =>
                new_call'.regex = new_call.regex ]_vars

(***************************************************************************)
(* replace_file: what the file system shows.                               *)
(***************************************************************************)
Returned == rf.pc = "done"

Ok == [kind |-> "Ok"]

Failed == Returned /\ rf.result.kind = "Err"

Has(op) == \E i \in DOMAIN io : io[i] = op

\* C1: whatever step fails, the file at path holds either the complete
\* original bytes or the complete replaced bytes, at every moment; and when
\* replace_file returns an error the file holds the original bytes and the
\* temporary file is gone.
C1_OriginalOrReplaced ==
    /\ target_file.bytes \in {orig.bytes, replace(self, orig.bytes).bytes}
    /\ target_file.bytes # orig.bytes => (Returned /\ rf.result = Ok)
    /\ Failed => (target_file = orig /\ temp_file = None)

\* An error returned after the temporary file was written.
C1_Witness ==
    /\ Failed
    /\ Has("write_all")
    /\ rf.result.at \in {"write_all", "flush_async", "canonicalize", "persist"}
    /\ replace(self, orig.bytes).bytes # orig.bytes

\* C4 as stated: a path with no parent makes replace_file fail with
\* InvalidPath before any file operation is made.
C4_Original ==
    ~path.has_parent =>
        /\ io = <<>>
        /\ Returned => (rf.result.kind = "Err" /\ rf.result.error = "InvalidPath")

\* C4 amended: a path with no parent makes replace_file fail with
\* InvalidPath once the two opens, the one-byte read, the metadata query
\* and the mapping of the source have succeeded (a failing read returns
\* Ok, a failing open, metadata query or mapping its own error); no
\* temporary file is ever created and the file at path is never changed.
C4_InvalidPathBeforeTempFile ==
    ~path.has_parent =>
        /\ temp_file = None /\ target_file = orig
        /\ \A i \in DOMAIN io : io[i] \in {"open", "read", "metadata", "mmap"}
        /\ (Failed /\ rf.result.error = "InvalidPath") =>
                io = <<"open", "read", "open", "metadata", "mmap">>
        /\ (Returned /\ io = <<"open", "read", "open", "metadata", "mmap">>) =>
                \/ rf.result = [kind |-> "Err", error |-> "InvalidPath", at |-> "parent"]
                \/ rf.result = [kind |-> "Err", error |-> "Io", at |-> "mmap"]

C4_Witness ==
    /\ ~path.has_parent
    /\ Failed /\ rf.result.error = "InvalidPath"

\* C5: on a file of zero length, once it is opened, replace_file returns
\* Ok and leaves the file as it was: the one-byte read fails, and there is
\* no mapping, no temporary file and no rename.
C5_EmptyFileUntouched ==
    orig.bytes = <<>> =>
        /\ target_file = orig /\ temp_file = None
        /\ ~rf.mmap_source /\ ~rf.mmap_target /\ ~rf.source
        /\ \A i \in DOMAIN io : io[i] \in {"open", "read"}
        /\ Len(io) <= 2
        /\ (Returned /\ Has("read")) => rf.result = Ok

C5_Witness ==
    /\ orig.bytes = <<>>
    /\ Returned /\ rf.result = Ok
    /\ io = <<"open", "read">>

\* C6: after a successful replace_file on a non-empty file, the file at
\* path has the permission bits the original had when they were captured,
\* whatever the replaced content (the empty one too).
C6_PermissionsKept ==
    (Returned /\ rf.result = Ok /\ orig.bytes # <<>>) =>
        /\ target_file.perm = orig.perm
        /\ Has("persist") => target_file.perm = rf.meta

\* A rewrite to an empty result, of a file whose mode is not the
\* temporary file's.
C6_Witness ==
    /\ Returned /\ rf.result = Ok /\ Has("persist")
    /\ orig.bytes # <<>> /\ target_file.bytes = <<>>
    /\ orig.perm # NamedTempFileNewIn(path).perm

\* C9: when replace_file comes to the rename, the read-only mapping of the
\* source, the source handle and the writable mapping of the temporary
\* file are all released; no mapping of the call outlives it.
C9_ReleasedBeforeRename ==
    rf.pc \in {"canonicalize", "persist", "done"} =>
        ~rf.mmap_source /\ ~rf.source /\ ~rf.mmap_target /\ ~rf.probe

\* The rename is next, after both mappings were made.
C9_Witness ==
    /\ rf.pc = "persist"
    /\ Has("mmap") /\ Has("map_mut")

\* C10 as stated: with a non-empty result, when the rename starts the
\* flush has completed: the temporary file's flushed content is the whole
\* result buffer.
C10_Original ==
    (rf.pc = "persist" /\ rf.replaced # <<>>) => temp_file.durable = rf.replaced

\* C10 amended: with a non-empty result, before the mappings are released
\* and the rename starts, flush_async has returned Ok, so the write-back of
\* the whole result buffer, which the temporary file holds, has been asked
\* for; it need not have completed.
C10_FlushRequestedBeforeRename ==
    (rf.pc \in {"end_block", "drop", "canonicalize", "persist"} /\ rf.replaced # <<>>) =>
        /\ temp_file.flush_requested
        /\ temp_file.bytes = rf.replaced

\* The rename is next and the write-back has not happened.
C10_Witness ==
    /\ rf.pc = "persist" /\ rf.replaced # <<>>
    /\ temp_file.flush_requested
    /\ temp_file.durable # rf.replaced

====
